---- MODULE Spec2Model ----
(***************************************************************************)
(* Order processing core of rodinya-case-backend: order intake             *)
(* (OrderService.createOrder), the BullMQ order queue, the order worker    *)
(* (OrderProcessor.process), the stock store (StockService) and the        *)
(* dead-letter listener (OrderDLQProcessor).                               *)
(*                                                                         *)
(* One stock record S is modelled.  Every await of the handlers is an      *)
(* interleaving point: each database call is one atomic step, the code     *)
(* between two awaits runs with the step that follows it.                  *)
(***************************************************************************)
EXTENDS Integers, Sequences, FiniteSets, TLC

\* ---------------------------------------------------------------- bounds
MaxOrders == 2
NumWorkers == 2
InitQty == 1
MaxOrderQty == 1
MaxPaymentFailures == 2
MaxFaults == 1
MaxInitQty == 2
MaxCallers == 4

\* ------------------------------------------------------ program constants
PRIORITY_VIP == 1
maxRetries == 3
attempts == 5
maxStalledCount == 1
backoffDelay == 2000

OrderIds == 1..MaxOrders
Callers == 1..MaxCallers

\* ------------------------------------------------------------- messages
\* An error message is the sequence of its words and punctuation marks, so
\* that String.includes is a search for a contiguous run of tokens.
ErrStockNotFound == <<"Stock", "not", "found">>
ErrInsufficient(available, requested) ==
    <<"Insufficient", "stock", ".", "Available", ":", ToString(available),
      ",", "Requested", ":", ToString(requested)>>
ErrMaxRetries ==
    <<"Max", "retries", "exceeded", "due", "to", "version", "conflicts">>
ErrDatabase(msg) == <<"Database", "error", ":">> \o msg
ErrPayment == <<"Payment", "gateway", "timeout", "-", "please", "retry">>
ErrConnection == <<"Database", "connection", "failed">>
ErrVersionConflict ==
    <<"Version", "conflict", "-", "stock", "was", "modified", "by",
      "another", "operation">>
ErrStockOperationFailed == <<"Stock", "operation", "failed">>
ErrStalled ==
    <<"job", "stalled", "more", "than", "allowable", "limit">>
ErrDefaultFailure ==
    <<"Job", "processing", "failed", "after", "all", "retries">>

Includes(hay, needle) ==
    \E i \in 1..(Len(hay) - Len(needle) + 1) :
        SubSeq(hay, i, i + Len(needle) - 1) = needle

\* ------------------------------------------------------------ the state
VARIABLES
    stock,          \* the stock document: exists, quantity, version (__v)
    orders,         \* order documents, by order id
    intake,         \* position of the createOrder call that makes order o
    jobs,           \* the queue's job of order o
    waitList,       \* BullMQ wait list: jobs without a priority, in order
    prioritized,    \* BullMQ prioritized set: jobs with a priority, in order
    runs,           \* the execution of process(job) on job j, if any
    failedEvents,   \* 'failed' events not yet delivered to the DLQ listener
    net,            \* quantity taken from the stock by order o, net
    initialQty,     \* the quantity the stock started with
    faultBudget,    \* crashes, database errors and admin calls still to come
    paymentBudget,  \* payment steps that may still fail
    response,       \* status in the response of the POST /orders call for o
    stale,          \* an execution of process(job) that lost the job's lock
    handled         \* what handleFailedJob did on the last event of job j

vars == <<stock, orders, intake, jobs, waitList, prioritized, runs,
          failedEvents, net, initialQty, faultBudget, paymentBudget,
          response, stale, handled>>

NoOrder ==
    [status |-> "NONE", failureReason |-> <<>>, quantity |-> 0,
     isVipOrder |-> FALSE]
NoJob ==
    [state |-> "none", priority |-> 0, attemptsMade |-> 0, delay |-> 0,
     failedReason |-> <<>>, stalledCount |-> 0]

\* What incrementStockAtomic returned to the rollback, if it was called.
NotCalled == [called |-> FALSE, success |-> FALSE, error |-> <<>>]

IncrementResult(success, error) ==
    [called |-> TRUE, success |-> success, error |-> error]

NoRun ==
    [pc |-> "idle", snapVersion |-> 0, retryCount |-> 0, error |-> <<>>,
     reserved |-> 0, released |-> 0, startStatus |-> "NONE",
     rollbackResult |-> NotCalled]

Terminal == {"CONFIRMED", "FAILED"}

\* ---------------------------------------------------------------- queue
\* A priority given to every job.
JobPriority_AllVip(isVip) == PRIORITY_VIP

\* createOrder: priority 1 for a VIP user, undefined otherwise; BullMQ
\* stores an undefined priority as 0.
JobPriority(isVip) == IF isVip THEN PRIORITY_VIP ELSE 0

RECURSIVE InsertByPriority(_, _, _)
InsertByPriority(q, j, prio) ==
    IF q = <<>> THEN <<j>>
    ELSE IF jobs[Head(q)].priority <= prio
         THEN <<Head(q)>> \o InsertByPriority(Tail(q), j, prio)
         ELSE <<j>> \o q

\* Queue.add and the promotion of a delayed job: a job without a priority
\* goes to the end of the wait list, a job with one into the prioritized set.
Enqueued(j, prio) ==
    IF prio = 0
    THEN /\ waitList' = Append(waitList, j)
         /\ UNCHANGED prioritized
    ELSE /\ prioritized' = InsertByPriority(prioritized, j, prio)
         /\ UNCHANGED waitList

\* The job a free worker fetches: BullMQ takes the wait list first and turns
\* to the prioritized set only when the wait list is empty.
NextJob(wait, prio) ==
    IF wait # <<>> THEN Head(wait)
    ELSE IF prio # <<>> THEN Head(prio) ELSE 0

RemoveJob(q, j) == SelectSeq(q, LAMBDA k : k # j)

\* exponential backoff of BullMQ: delay * 2^(attemptsMade - 1)
RECURSIVE Pow2(_)
Pow2(n) == IF n <= 0 THEN 1 ELSE 2 * Pow2(n - 1)

\* A backoff that grows by the base delay per attempt.
BackoffDelay_Linear(attemptsMade) == backoffDelay * attemptsMade

BackoffDelay(attemptsMade) == backoffDelay * Pow2(attemptsMade - 1)

\* A retry count that allows one attempt more.
ShouldRetry_OneMore(attemptsMade) == attemptsMade < attempts

\* Job.moveToFailed of a thrown error: retry while attempts remain.
ShouldRetry(attemptsMade) == attemptsMade + 1 < attempts

\* --------------------------------------------------------------- intake
\* createOrder up to the save: the stock is looked up (NotFound when it is
\* absent) and the order is saved with status PENDING.
CreateOrderSave(o, qty, isVip) ==
    /\ intake[o] = "idle"
    /\ \A p \in DOMAIN orders : p < o => intake[p] # "idle"
    /\ stock.exists
    /\ orders' = [orders EXCEPT ![o] =
            [status |-> "PENDING", failureReason |-> <<>>,
             quantity |-> qty, isVipOrder |-> isVip]]
    /\ intake' = [intake EXCEPT ![o] = "saved"]
    /\ UNCHANGED <<stock, jobs, waitList, prioritized, runs,
                   failedEvents, net, initialQty, faultBudget, paymentBudget,
                   response, stale, handled>>

\* A createOrder that adds the job before it saves the order.
CreateOrderEnqueue_BeforeSave(o) ==
    /\ intake[o] = "idle"
    /\ LET prio == JobPriority(orders[o].isVipOrder) IN
        /\ jobs' = [jobs EXCEPT ![o] =
                [NoJob EXCEPT !.state = "waiting", !.priority = prio]]
        /\ Enqueued(o, prio)
    /\ intake' = [intake EXCEPT ![o] = "done"]
    /\ UNCHANGED <<stock, orders, runs, failedEvents, net, faultBudget,
                   paymentBudget, initialQty, response, stale, handled>>

\* createOrder from the save on: the job is added to the queue.
CreateOrderEnqueue(o) ==
    /\ intake[o] = "saved"
    /\ LET prio == JobPriority(orders[o].isVipOrder) IN
        /\ jobs' = [jobs EXCEPT ![o] =
                [NoJob EXCEPT !.state = "waiting", !.priority = prio]]
        /\ Enqueued(o, prio)
    /\ intake' = [intake EXCEPT ![o] = "done"]
    /\ UNCHANGED <<stock, orders, runs, failedEvents, net, faultBudget, paymentBudget, initialQty,
                   response, stale, handled>>

\* A catch that marks the order FAILED when queue.add raises.
CreateOrderEnqueueFails_MarkFailed(o) ==
    /\ intake[o] = "saved"
    /\ faultBudget > 0
    /\ faultBudget' = faultBudget - 1
    /\ intake' = [intake EXCEPT ![o] = "failed"]
    /\ orders' = [orders EXCEPT ![o].status = "FAILED"]
    /\ UNCHANGED <<stock, jobs, waitList, prioritized, runs,
                   failedEvents, net, initialQty, paymentBudget,
                   response, stale, handled>>

\* createOrder when queue.add raises: the catch logs, leaves the saved order
\* as it is and throws the error to the caller.
CreateOrderEnqueueFails(o) ==
    /\ intake[o] = "saved"
    /\ faultBudget > 0
    /\ faultBudget' = faultBudget - 1
    /\ intake' = [intake EXCEPT ![o] = "failed"]
    /\ UNCHANGED <<stock, orders, jobs, waitList, prioritized, runs,
                   failedEvents, net, initialQty, paymentBudget,
                   response, stale, handled>>

\* A createOrder that saves the order before it looks the stock up.
CreateOrderNotFound_SavesFirst(o) ==
    /\ intake[o] = "idle"
    /\ \A p \in DOMAIN orders : p < o => intake[p] # "idle"
    /\ ~stock.exists
    /\ orders' = [orders EXCEPT ![o] = [NoOrder EXCEPT !.status = "PENDING"]]
    /\ intake' = [intake EXCEPT ![o] = "rejected"]
    /\ UNCHANGED <<stock, jobs, waitList, prioritized, runs,
                   failedEvents, net, initialQty, faultBudget, paymentBudget,
                   response, stale, handled>>

\* createOrder for a stock that has no record: findOneStockWithoutPopulate
\* throws NotFoundException before anything is saved or enqueued.
CreateOrderNotFound(o) ==
    /\ intake[o] = "idle"
    /\ \A p \in DOMAIN orders : p < o => intake[p] # "idle"
    /\ ~stock.exists
    /\ intake' = [intake EXCEPT ![o] = "rejected"]
    /\ UNCHANGED <<stock, orders, jobs, waitList, prioritized, runs,
                   failedEvents, net, initialQty, faultBudget, paymentBudget,
                   response, stale, handled>>

\* A response built from the order as it is in the store when the call
\* returns.
ResponseStatus_Reread(o) == orders[o].status

\* The status in the response: that of the document createOrder saved and
\* returned, which later writes to the store do not change.
ResponseStatus(o) == "PENDING"

\* OrderController.createOrder returns the response once the service call
\* has returned the saved order.
CreateOrderRespond(o) ==
    /\ intake[o] = "done"
    /\ response[o] = "NONE"
    /\ response' = [response EXCEPT ![o] = ResponseStatus(o)]
    /\ UNCHANGED <<stock, orders, intake, jobs, waitList, prioritized, runs,
                   failedEvents, net, initialQty, faultBudget, paymentBudget,
                   stale, handled>>

\* ------------------------------------------------------------- dispatch
\* The workers are interchangeable and each runs one job at a time, so a
\* worker is free whenever fewer than NumWorkers jobs are active.
\* An order document with this id is in the store.
OrderExists(o) == orders[o].status # "NONE"

\* An update that writes the status and leaves the reason.
FindByIdAndUpdateOrder_StatusOnly(o, status, reason) ==
    IF OrderExists(o)
    THEN [orders EXCEPT ![o].status = status]
    ELSE orders

\* An update that inserts the document it did not find.
FindByIdAndUpdateOrder_Upsert(o, status, reason) ==
    [orders EXCEPT ![o].status = status, ![o].failureReason = reason]

\* orderModel.findByIdAndUpdate(orderId, {status, failureReason}): writes
\* the two fields of the document when it exists and nothing otherwise.
FindByIdAndUpdateOrder(o, status, reason) ==
    IF OrderExists(o)
    THEN [orders EXCEPT ![o].status = status, ![o].failureReason = reason]
    ELSE orders

Busy ==
    Cardinality({j \in DOMAIN jobs : jobs[j].state = "active"})
    + Cardinality({j \in DOMAIN stale : stale[j].pc # "idle"})

\* A free worker fetches the next job and calls process(job).
Dispatch(j) ==
    /\ Busy < NumWorkers
    /\ j = NextJob(waitList, prioritized)
    /\ jobs' = [jobs EXCEPT ![j].state = "active"]
    /\ waitList' = RemoveJob(waitList, j)
    /\ prioritized' = RemoveJob(prioritized, j)
    /\ runs' = [runs EXCEPT ![j] =
            [NoRun EXCEPT !.pc = "findById",
                          !.startStatus = orders[j].status]]
    /\ UNCHANGED <<stock, orders, intake, failedEvents, net, faultBudget, paymentBudget, initialQty,
                   response, stale, handled>>

\* ------------------------------------------------ decrementStockAtomic
\* A call without the quantity check.
SufficientStock_NoCheck(available, requested) == TRUE

\* A check that wants more than the quantity asked for.
SufficientStock_Strict(available, requested) == available > requested

\* The quantity check of decrementStockAtomic on the document it has read.
SufficientStock(available, requested) == ~(available < requested)

\* The update document of decrementStockAtomic: { $inc: { quantity: -n } }.
\* It names no other field: __v is matched by the filter and is not written
\* (Mongoose increments __v in save(), not in findOneAndUpdate, and the Stock
\* schema registers no update hook).
DecrementedStock(s, n) == [s EXCEPT !.quantity = @ - n]

\* A rollback that leaves the quantity as it is.
IncrementedStock_Lost(s, n) == s

\* The update document of incrementStockAtomic: { $inc: { quantity: n } }.
IncrementedStock(s, n) == [s EXCEPT !.quantity = @ + n]

\* The filter of the conditional update: { _id: stockId, __v: read version }.
MatchesFilter(s, version) == s.exists /\ s.version = version

\* ------------------------------------------------------------ process()
\* A classification that knows database errors only.
IsTransientStockError_DbOnly(error) ==
    Includes(error, <<"Database", "error">>)

\* A classification that takes any mention of a version conflict.
IsTransientStockError_AnyConflict(error) ==
    \/ Includes(error, <<"version", "conflicts">>)
    \/ Includes(error, <<"Version", "conflict">>)
    \/ Includes(error, <<"Database", "error">>)

\* process() sorts a failed stock result by its text.
IsTransientStockError(error) ==
    \/ Includes(error, <<"version", "conflicts">>)
    \/ Includes(error, <<"Database", "error">>)

\* A transient stock failure sent through the rollback of the inner catch.
AfterStockResult_RollsBack(me, result) ==
    IF result.success
    THEN [me EXCEPT !.pc = "payment", !.reserved = result.quantity]
    ELSE IF IsTransientStockError(result.error)
    THEN [me EXCEPT !.pc = "rollback", !.error = result.error]
    ELSE [me EXCEPT !.pc = "business",
                    !.error = IF result.error # <<>> THEN result.error
                              ELSE ErrStockOperationFailed]

\* process() receives the result of decrementStockAtomic: success goes on to
\* the payment step, a transient failure is thrown, any other failure is a
\* BusinessLogicError.  The code runs to its next await with the step that
\* delivers the result.
AfterStockResult(me, result) ==
    IF result.success
    THEN [me EXCEPT !.pc = "payment", !.reserved = result.quantity]
    ELSE IF IsTransientStockError(result.error)
    THEN [me EXCEPT !.pc = "rethrow", !.error = result.error]
    ELSE [me EXCEPT !.pc = "business",
                    !.error = IF result.error # <<>> THEN result.error
                              ELSE ErrStockOperationFailed]

Failure(error) == [success |-> FALSE, error |-> error, quantity |-> 0]
Success(n) == [success |-> TRUE, error |-> <<>>, quantity |-> n]

\* A loop that never gives up.
LoopContinues_Forever(retryCount) == TRUE

\* while (retryCount < maxRetries)
LoopContinues(retryCount) == retryCount < maxRetries

\* decrementStockAtomic, standing for any stock service, returns a failed
\* result with the given error text and process() classifies it.
DecrementStockFails(j, error) ==
    /\ runs[j].pc = "findById"
    /\ runs' = [runs EXCEPT ![j] = AfterStockResult(runs[j], Failure(error))]
    /\ UNCHANGED <<stock, orders, intake, jobs, waitList, prioritized,
                   failedEvents, net, initialQty, faultBudget, paymentBudget,
                   response, stale, handled>>

\* findById and the checks on the document read.
FindById(j) ==
    LET me == runs[j]
        qty == orders[j].quantity
    IN
    /\ me.pc = "findById"
    /\ IF ~stock.exists
       THEN runs' = [runs EXCEPT ![j] =
                AfterStockResult(me, Failure(ErrStockNotFound))]
       ELSE IF ~SufficientStock(stock.quantity, qty)
       THEN runs' = [runs EXCEPT ![j] =
                AfterStockResult(me,
                    Failure(ErrInsufficient(stock.quantity, qty)))]
       ELSE runs' = [runs EXCEPT ![j].pc = "findOneAndUpdate",
                ![j].snapVersion = stock.version]
    /\ UNCHANGED <<stock, orders, intake, jobs, waitList, prioritized,
                   failedEvents, net, initialQty, faultBudget, paymentBudget,
                   response, stale, handled>>

\* findOneAndUpdate with the version filter; no match counts as a lost race
\* and the loop reads again, at most maxRetries times.
FindOneAndUpdate(j) ==
    LET me == runs[j]
        qty == orders[j].quantity
    IN
    /\ me.pc = "findOneAndUpdate"
    /\ IF MatchesFilter(stock, me.snapVersion)
       THEN /\ stock' = DecrementedStock(stock, qty)
            /\ net' = [net EXCEPT ![j] = @ + qty]
            /\ runs' = [runs EXCEPT ![j] = AfterStockResult(me, Success(qty))]
       ELSE /\ UNCHANGED <<stock, net, initialQty, response, stale, handled>>
            /\ IF LoopContinues(me.retryCount + 1)
               THEN runs' = [runs EXCEPT ![j].pc = "findById",
                        ![j].retryCount = @ + 1]
               ELSE runs' = [runs EXCEPT ![j] =
                        AfterStockResult([me EXCEPT !.retryCount = @ + 1],
                                         Failure(ErrMaxRetries))]
    /\ UNCHANGED <<orders, intake, jobs, waitList, prioritized,
                   failedEvents, faultBudget, paymentBudget, initialQty,
                   response, stale, handled>>

\* A payment failure thrown on without the rollback.
PaymentFail_NoRollback(j) ==
    /\ runs[j].pc = "payment"
    /\ paymentBudget > 0
    /\ paymentBudget' = paymentBudget - 1
    /\ runs' = [runs EXCEPT ![j].pc = "rethrow", ![j].error = ErrPayment]
    /\ UNCHANGED <<stock, orders, intake, jobs, waitList, prioritized,
                   failedEvents, net, faultBudget, initialQty,
                   response, stale, handled>>

\* The simulated payment step throws; the inner catch rolls the stock back.
PaymentFail(j) ==
    /\ runs[j].pc = "payment"
    /\ paymentBudget > 0
    /\ paymentBudget' = paymentBudget - 1
    /\ runs' = [runs EXCEPT ![j].pc = "rollback", ![j].error = ErrPayment]
    /\ UNCHANGED <<stock, orders, intake, jobs, waitList, prioritized,
                   failedEvents, net, faultBudget, initialQty,
                   response, stale, handled>>

\* The payment step passes and
\* findByIdAndUpdate(orderId, {status: CONFIRMED, failureReason: ''}) runs.
ConfirmWrite(j) ==
    LET me == runs[j] IN
    /\ me.pc = "payment"
    /\ orders' = FindByIdAndUpdateOrder(j, "CONFIRMED", <<>>)
    /\ runs' = [runs EXCEPT ![j].pc = "ack"]
    /\ UNCHANGED <<stock, intake, jobs, waitList, prioritized,
                   failedEvents, net, initialQty, faultBudget, paymentBudget,
                   response, stale, handled>>

\* An inner catch that throws what the failed rollback reported.
Rethrown_RollbackError(original, result) ==
    IF result.success THEN original ELSE result.error

\* throw transientError: the inner catch throws the error it caught,
\* whatever the rollback returned.
Rethrown(original, result) == original

\* incrementStockAtomic in the inner catch, then the error is thrown again.
Rollback(j) ==
    LET me == runs[j]
        qty == orders[j].quantity
    IN
    /\ me.pc = "rollback"
    /\ IF stock.exists
       THEN /\ stock' = IncrementedStock(stock, qty)
            /\ net' = [net EXCEPT ![j] = @ - qty]
            /\ runs' = [runs EXCEPT ![j].pc = "rethrow", ![j].released = qty,
                            ![j].rollbackResult = IncrementResult(TRUE, <<>>),
                            ![j].error =
                                Rethrown(me.error,
                                         IncrementResult(TRUE, <<>>))]
       ELSE /\ UNCHANGED <<stock, net, initialQty, response, stale, handled>>
            /\ runs' = [runs EXCEPT ![j].pc = "rethrow", ![j].released = qty,
                            ![j].rollbackResult =
                                IncrementResult(FALSE, ErrStockNotFound),
                            ![j].error =
                                Rethrown(me.error,
                                    IncrementResult(FALSE, ErrStockNotFound))]
    /\ UNCHANGED <<orders, intake, jobs, waitList, prioritized,
                   failedEvents, faultBudget, paymentBudget, initialQty,
                   response, stale, handled>>

\* process() throws: the queue retries the job after its backoff delay, or
\* fails it and emits 'failed' once the attempts are used up.
Rethrow(j) ==
    LET me == runs[j] IN
    /\ me.pc = "rethrow"
    /\ IF ShouldRetry(jobs[j].attemptsMade)
       THEN /\ jobs' = [jobs EXCEPT ![j].state = "delayed",
                    ![j].attemptsMade = @ + 1,
                    ![j].delay = BackoffDelay(jobs[j].attemptsMade + 1)]
            /\ UNCHANGED failedEvents
       ELSE /\ jobs' = [jobs EXCEPT ![j].state = "failed",
                    ![j].attemptsMade = @ + 1,
                    ![j].failedReason = me.error]
            /\ failedEvents' = failedEvents \cup {j}
    /\ runs' = [runs EXCEPT ![j] = NoRun]
    /\ UNCHANGED <<stock, orders, intake, waitList, prioritized, net, faultBudget, paymentBudget, initialQty,
                   response, stale, handled>>

\* A business failure that leaves the order as it is.
BusinessFail_NoWrite(j) ==
    /\ runs[j].pc = "business"
    /\ runs' = [runs EXCEPT ![j].pc = "moveToFailed"]
    /\ UNCHANGED <<stock, orders, intake, jobs, waitList, prioritized,
                   failedEvents, net, faultBudget, paymentBudget, initialQty,
                   response, stale, handled>>

\* The outer catch of a BusinessLogicError writes FAILED on the order.
BusinessFail(j) ==
    LET me == runs[j] IN
    /\ me.pc = "business"
    /\ orders' = FindByIdAndUpdateOrder(j, "FAILED", me.error)
    /\ runs' = [runs EXCEPT ![j].pc = "moveToFailed"]
    /\ UNCHANGED <<stock, intake, jobs, waitList, prioritized,
                   failedEvents, net, initialQty, faultBudget, paymentBudget,
                   response, stale, handled>>

\* A BusinessLogicError that the queue would retry like any other error.
BusinessLogicErrorUnrecoverable_No == FALSE

\* BusinessLogicError of ./order.errors: a job failed with it is not retried
\* (moveToFailed "short-circuits remaining retries").
BusinessLogicErrorUnrecoverable == TRUE

\* job.moveToFailed(error, token) and the return that follows it: the job is
\* failed for good when the error is unrecoverable or the attempts are used
\* up, and is retried after its backoff delay otherwise.
MoveToFailed(j) ==
    LET me == runs[j] IN
    /\ me.pc = "moveToFailed"
    /\ IF BusinessLogicErrorUnrecoverable \/ ~ShouldRetry(jobs[j].attemptsMade)
       THEN /\ jobs' = [jobs EXCEPT ![j].state = "failed",
                            ![j].attemptsMade = @ + 1,
                            ![j].failedReason = me.error]
            /\ failedEvents' = failedEvents \cup {j}
       ELSE /\ jobs' = [jobs EXCEPT ![j].state = "delayed",
                            ![j].attemptsMade = @ + 1,
                            ![j].delay = BackoffDelay(jobs[j].attemptsMade + 1)]
            /\ UNCHANGED failedEvents
    /\ runs' = [runs EXCEPT ![j] = NoRun]
    /\ UNCHANGED <<stock, orders, intake, waitList, prioritized, net, faultBudget, paymentBudget, initialQty,
                   response, stale, handled>>

\* process() returns after the CONFIRMED write: the job is completed.
Ack(j) ==
    LET me == runs[j] IN
    /\ me.pc = "ack"
    /\ jobs' = [jobs EXCEPT ![j].state = "completed"]
    /\ runs' = [runs EXCEPT ![j] = NoRun]
    /\ UNCHANGED <<stock, orders, intake, waitList, prioritized,
                   failedEvents, net, initialQty, faultBudget, paymentBudget,
                   response, stale, handled>>

\* The backoff delay of a retried job has passed.
PromoteDelayed(j) ==
    /\ jobs[j].state = "delayed"
    /\ jobs' = [jobs EXCEPT ![j].state = "waiting"]
    /\ Enqueued(j, jobs[j].priority)
    /\ UNCHANGED <<stock, orders, intake, runs, failedEvents, net, faultBudget, paymentBudget, initialQty,
                   response, stale, handled>>

\* ------------------------------------------------------------------ DLQ
\* A listener that always writes its default reason.
FailureReasonOf_Default(message) == ErrDefaultFailure

\* The failure reason handleFailedJob writes.
FailureReasonOf(message) ==
    IF message # <<>> THEN message ELSE ErrDefaultFailure

\* A handler that marks every order.
HandleFailedJob_Broadcast(j) ==
    /\ j \in failedEvents
    /\ orders' = [o \in DOMAIN orders |->
            [orders[o] EXCEPT !.status = "FAILED",
                !.failureReason = FailureReasonOf(jobs[j].failedReason)]]
    /\ handled' = [handled EXCEPT ![j] = "updated"]
    /\ failedEvents' = failedEvents \ {j}
    /\ UNCHANGED <<stock, intake, jobs, waitList, prioritized, runs,
                   net, faultBudget, paymentBudget, initialQty,
                   response, stale>>

\* handleFailedJob on a 'failed' event: findByIdAndUpdate(orderId, FAILED).
HandleFailedJob(j) ==
    /\ j \in failedEvents
    /\ orders' = FindByIdAndUpdateOrder(j, "FAILED",
                        FailureReasonOf(jobs[j].failedReason))
    /\ handled' = [handled EXCEPT ![j] =
                        IF OrderExists(j) THEN "updated" ELSE "notFound"]
    /\ failedEvents' = failedEvents \ {j}
    /\ UNCHANGED <<stock, intake, jobs, waitList, prioritized, runs,
                   net, faultBudget, paymentBudget, initialQty,
                   response, stale>>

\* findByIdAndUpdate of handleFailedJob raises: the catch logs the error and
\* nothing is written.
HandleFailedJobUpdateFails(j) ==
    /\ j \in failedEvents
    /\ faultBudget > 0
    /\ faultBudget' = faultBudget - 1
    /\ failedEvents' = failedEvents \ {j}
    /\ handled' = [handled EXCEPT ![j] = "logged"]
    /\ UNCHANGED <<stock, orders, intake, jobs, waitList, prioritized, runs,
                   net, paymentBudget, initialQty, response, stale>>

\* The stalled-jobs check recovers a job at most maxStalledCount times.
RecoverStalled(stalledCount) == ~(stalledCount > maxStalledCount)

\* What the stalled-jobs check does with an active job whose lock is gone:
\* back to the head of its list, or failed once it stalled too often.
StalledJobMove(j) ==
    LET count == jobs[j].stalledCount + 1 IN
    IF RecoverStalled(count)
    THEN /\ jobs' = [jobs EXCEPT ![j].state = "waiting",
                                 ![j].stalledCount = count]
         /\ IF jobs[j].priority = 0
            THEN /\ waitList' = <<j>> \o waitList
                 /\ UNCHANGED prioritized
            ELSE /\ prioritized' =
                        InsertByPriority(prioritized, j, jobs[j].priority)
                 /\ UNCHANGED waitList
         /\ UNCHANGED failedEvents
    ELSE /\ jobs' = [jobs EXCEPT ![j].state = "failed",
                                 ![j].stalledCount = count,
                                 ![j].failedReason = ErrStalled]
         /\ failedEvents' = failedEvents \cup {j}
         /\ UNCHANGED <<waitList, prioritized>>

\* ---------------------------------------------------------- environment
\* The worker process dies while its job is active: the lock of the job
\* expires and the stalled-jobs check puts the job back in front of the
\* waiting jobs, or fails it when it stalled too often (one step).
Crash(j) ==
    LET me == runs[j] IN
    /\ me.pc \notin {"idle", "dead"}
    /\ faultBudget > 0
    /\ faultBudget' = faultBudget - 1
    /\ StalledJobMove(j)
    /\ runs' = [runs EXCEPT ![j] = NoRun]
    /\ UNCHANGED <<stock, orders, intake, net, paymentBudget, initialQty,
                   response, stale, handled>>

\* The worker running process(job) dies or stops renewing the job's lock;
\* the job is still in the active list.
WorkerDies(j) ==
    /\ runs[j].pc \notin {"idle", "dead"}
    /\ faultBudget > 0
    /\ faultBudget' = faultBudget - 1
    /\ runs' = [runs EXCEPT ![j].pc = "dead"]
    /\ UNCHANGED <<stock, orders, intake, jobs, waitList, prioritized,
                   failedEvents, net, paymentBudget, initialQty, response, stale, handled>>

\* The stalled-jobs check of a live worker finds the job without its lock.
MoveStalledJobsToWait(j) ==
    /\ runs[j].pc = "dead"
    /\ jobs[j].state = "active"
    /\ StalledJobMove(j)
    /\ runs' = [runs EXCEPT ![j] = NoRun]
    /\ UNCHANGED <<stock, orders, intake, net, faultBudget, paymentBudget,
                   initialQty, response, stale, handled>>

\* A stock query of decrementStockAtomic raises: the catch returns
\* 'Database error: <message>'.
DecrementDbError(j) ==
    /\ runs[j].pc \in {"findById", "findOneAndUpdate"}
    /\ faultBudget > 0
    /\ faultBudget' = faultBudget - 1
    /\ runs' = [runs EXCEPT ![j] =
            AfterStockResult(runs[j], Failure(ErrDatabase(ErrConnection)))]
    /\ UNCHANGED <<stock, orders, intake, jobs, waitList, prioritized,
                   failedEvents, net, paymentBudget, initialQty,
                   response, stale, handled>>

\* The payment step passes and the CONFIRMED write raises; the inner catch
\* rolls the stock back.
ConfirmWriteFails(j) ==
    /\ runs[j].pc = "payment"
    /\ faultBudget > 0
    /\ faultBudget' = faultBudget - 1
    /\ runs' = [runs EXCEPT ![j].pc = "rollback",
                              ![j].error = ErrConnection]
    /\ UNCHANGED <<stock, orders, intake, jobs, waitList, prioritized,
                   failedEvents, net, paymentBudget, initialQty,
                   response, stale, handled>>

\* The query of incrementStockAtomic raises: it returns a failure, process()
\* logs it and throws the first error again.
RollbackFails(j) ==
    /\ runs[j].pc = "rollback"
    /\ faultBudget > 0
    /\ faultBudget' = faultBudget - 1
    /\ runs' = [runs EXCEPT ![j].pc = "rethrow",
                             ![j].released = orders[j].quantity,
                             ![j].rollbackResult =
                                IncrementResult(FALSE,
                                                ErrDatabase(ErrConnection)),
                             ![j].error =
                                Rethrown(runs[j].error,
                                    IncrementResult(FALSE,
                                        ErrDatabase(ErrConnection)))]
    /\ UNCHANGED <<stock, orders, intake, jobs, waitList, prioritized,
                   failedEvents, net, paymentBudget, initialQty,
                   response, stale, handled>>

\* The worker running process(job) is alive but did not renew the job's
\* lock in time (it is waiting for the CONFIRMED write while its event loop
\* or its connection to the queue is held up): the stalled-jobs check moves
\* the job as it moves any job without a lock, and the execution goes on.
LockLost(j) ==
    /\ runs[j].pc = "payment"
    /\ stale[j].pc = "idle"
    /\ faultBudget > 0
    /\ faultBudget' = faultBudget - 1
    /\ StalledJobMove(j)
    /\ stale' = [stale EXCEPT ![j] = runs[j]]
    /\ runs' = [runs EXCEPT ![j] = NoRun]
    /\ UNCHANGED <<stock, orders, intake, net, paymentBudget, initialQty,
                   response, handled>>

\* The execution that lost the lock gets its CONFIRMED write through.
StaleConfirmWrite(j) ==
    /\ stale[j].pc = "payment"
    /\ orders' = FindByIdAndUpdateOrder(j, "CONFIRMED", <<>>)
    /\ stale' = [stale EXCEPT ![j].pc = "ack"]
    /\ UNCHANGED <<stock, intake, jobs, waitList, prioritized, runs,
                   failedEvents, net, initialQty, faultBudget, paymentBudget,
                   response, handled>>

\* The execution that lost the lock returns; the queue refuses to complete
\* a job for a token that no longer holds its lock, so the job stays as it
\* is.
StaleReturn(j) ==
    /\ stale[j].pc = "ack"
    /\ stale' = [stale EXCEPT ![j] = NoRun]
    /\ UNCHANGED <<stock, orders, intake, jobs, waitList, prioritized, runs,
                   failedEvents, net, initialQty, faultBudget, paymentBudget,
                   response, handled>>

\* updateStock: the admin sets the quantity with findByIdAndUpdate(id, dto),
\* which leaves the version key as it is.
UpdateStock(q) ==
    /\ stock.exists
    /\ q # stock.quantity
    /\ faultBudget > 0
    /\ faultBudget' = faultBudget - 1
    /\ stock' = [stock EXCEPT !.quantity = q]
    /\ UNCHANGED <<orders, intake, jobs, waitList, prioritized, runs,
                   failedEvents, net, paymentBudget, initialQty,
                   response, stale, handled>>

\* removeStock: the admin deletes the stock document.
RemoveStock ==
    /\ stock.exists
    /\ faultBudget > 0
    /\ faultBudget' = faultBudget - 1
    /\ stock' = [stock EXCEPT !.exists = FALSE]
    /\ UNCHANGED <<orders, intake, jobs, waitList, prioritized, runs,
                   failedEvents, net, paymentBudget, initialQty,
                   response, stale, handled>>

\* ------------------------------------------------------- specifications
NewStock(q) == [exists |-> TRUE, quantity |-> q, version |-> 0]

Init ==
    /\ stock = NewStock(InitQty)
    /\ initialQty = InitQty
    /\ orders = [o \in OrderIds |-> NoOrder]
    /\ intake = [o \in OrderIds |-> "idle"]
    /\ jobs = [o \in OrderIds |-> NoJob]
    /\ waitList = <<>>
    /\ prioritized = <<>>
    /\ runs = [o \in OrderIds |-> NoRun]
    /\ failedEvents = {}
    /\ net = [o \in OrderIds |-> 0]
    /\ response = [o \in OrderIds |-> "NONE"]
    /\ stale = [o \in OrderIds |-> NoRun]
    /\ handled = [o \in OrderIds |-> "none"]
    /\ faultBudget = 0
    /\ paymentBudget = MaxPaymentFailures

\* The order pipeline without faults: submissions, workers, payment failures
\* and the queue's retries.
Next ==
    \/ \E o \in DOMAIN orders, qty \in 1..MaxOrderQty, isVip \in BOOLEAN :
            CreateOrderSave(o, qty, isVip)
    \/ \E o \in DOMAIN orders : CreateOrderEnqueue(o)
    \/ \E j \in DOMAIN jobs : Dispatch(j)
    \/ \E j \in DOMAIN jobs : FindById(j)
    \/ \E j \in DOMAIN jobs : FindOneAndUpdate(j)
    \/ \E j \in DOMAIN jobs : PaymentFail(j)
    \/ \E j \in DOMAIN jobs : ConfirmWrite(j)
    \/ \E j \in DOMAIN jobs : Rollback(j)
    \/ \E j \in DOMAIN jobs : Rethrow(j)
    \/ \E j \in DOMAIN jobs : BusinessFail(j)
    \/ \E j \in DOMAIN jobs : MoveToFailed(j)
    \/ \E j \in DOMAIN jobs : Ack(j)
    \/ \E j \in DOMAIN jobs : PromoteDelayed(j)
    \/ \E j \in DOMAIN jobs : HandleFailedJob(j)

Spec == Init /\ [][Next]_vars

\* The pipeline with a bounded number of worker crashes (redelivery),
\* database errors and stock deletions, on a stock of any initial quantity.
InitEnv ==
    /\ initialQty \in 1..MaxInitQty
    /\ stock = NewStock(initialQty)
    /\ orders = [o \in OrderIds |-> NoOrder]
    /\ intake = [o \in OrderIds |-> "idle"]
    /\ jobs = [o \in OrderIds |-> NoJob]
    /\ waitList = <<>>
    /\ prioritized = <<>>
    /\ runs = [o \in OrderIds |-> NoRun]
    /\ failedEvents = {}
    /\ net = [o \in OrderIds |-> 0]
    /\ response = [o \in OrderIds |-> "NONE"]
    /\ stale = [o \in OrderIds |-> NoRun]
    /\ handled = [o \in OrderIds |-> "none"]
    /\ faultBudget = MaxFaults
    /\ paymentBudget = MaxPaymentFailures

NextEnv ==
    \/ Next
    \/ \E j \in DOMAIN jobs : Crash(j)
    \/ \E j \in DOMAIN jobs : DecrementDbError(j)
    \/ \E j \in DOMAIN jobs : ConfirmWriteFails(j)
    \/ \E j \in DOMAIN jobs : RollbackFails(j)
    \/ RemoveStock

SpecEnv == InitEnv /\ [][NextEnv]_vars

\* MaxCallers concurrent calls decrementStockAtomic(S, 1) on a stock of any
\* quantity K, and no other writer.
InitStock ==
    /\ initialQty \in 0..MaxInitQty
    /\ stock = NewStock(initialQty)
    /\ orders = [o \in Callers |->
            [status |-> "PENDING", failureReason |-> <<>>, quantity |-> 1,
             isVipOrder |-> FALSE]]
    /\ intake = [o \in Callers |-> "done"]
    /\ jobs = [o \in Callers |-> [NoJob EXCEPT !.state = "active"]]
    /\ waitList = <<>>
    /\ prioritized = <<>>
    /\ runs = [o \in Callers |->
            [NoRun EXCEPT !.pc = "findById", !.startStatus = "PENDING"]]
    /\ failedEvents = {}
    /\ net = [o \in Callers |-> 0]
    /\ response = [o \in Callers |-> "NONE"]
    /\ stale = [o \in Callers |-> NoRun]
    /\ handled = [o \in Callers |-> "none"]
    /\ faultBudget = 0
    /\ paymentBudget = 0

NextStock ==
    \/ \E j \in DOMAIN jobs : FindById(j)
    \/ \E j \in DOMAIN jobs : FindOneAndUpdate(j)

SpecStock == InitStock /\ [][NextStock]_vars

\* One call of process() on a stock document in any state, with database
\* errors and a stock deletion possible at every step.  The call starts at
\* the head of decrementStockAtomic's loop, after any number of conditional
\* updates that matched nothing.
InitProc ==
    \E qty \in 1..MaxOrderQty, isVip \in BOOLEAN, made \in 0..(attempts - 1),
       lost \in 0..(maxRetries - 1) :
        LET fresh == [NoRun EXCEPT !.pc = "findById",
                                   !.retryCount = lost,
                                   !.startStatus = "PENDING"] IN
        /\ initialQty \in 0..MaxInitQty
        /\ stock \in {[exists |-> e, quantity |-> initialQty, version |-> 0] :
                        e \in BOOLEAN}
        /\ orders = <<[status |-> "PENDING", failureReason |-> <<>>,
                       quantity |-> qty, isVipOrder |-> isVip]>>
        /\ intake = <<"done">>
        /\ jobs = <<[NoJob EXCEPT !.state = "active",
                                  !.priority = JobPriority(isVip),
                                  !.attemptsMade = made]>>
        /\ waitList = <<>>
        /\ prioritized = <<>>
        /\ runs = <<fresh>>
        /\ failedEvents = {}
        /\ net = <<0>>
        /\ response = <<"NONE">>
        /\ stale = <<NoRun>>
        /\ handled = <<"none">>
        /\ faultBudget = MaxFaults
        /\ paymentBudget = 1

NextProc ==
    \/ \E j \in DOMAIN jobs : FindById(j)
    \/ \E j \in DOMAIN jobs : FindOneAndUpdate(j)
    \/ \E j \in DOMAIN jobs : DecrementDbError(j)
    \/ \E j \in DOMAIN jobs : PaymentFail(j)
    \/ \E j \in DOMAIN jobs : ConfirmWrite(j)
    \/ \E j \in DOMAIN jobs : ConfirmWriteFails(j)
    \/ \E j \in DOMAIN jobs : Rollback(j)
    \/ \E j \in DOMAIN jobs : RollbackFails(j)
    \/ \E j \in DOMAIN jobs : Rethrow(j)
    \/ \E j \in DOMAIN jobs : BusinessFail(j)
    \/ \E j \in DOMAIN jobs : MoveToFailed(j)
    \/ \E j \in DOMAIN jobs : Ack(j)
    \/ RemoveStock

SpecProc == InitProc /\ [][NextProc]_vars

\* One order and its job from the first dispatch to the end of the job, on a
\* stock of any quantity; the payment step may fail on every attempt.
InitRetry ==
    \E qty \in 1..MaxOrderQty, isVip \in BOOLEAN :
        /\ initialQty \in 0..MaxInitQty
        /\ stock = NewStock(initialQty)
        /\ orders = <<[status |-> "PENDING", failureReason |-> <<>>,
                       quantity |-> qty, isVipOrder |-> isVip]>>
        /\ intake = <<"done">>
        /\ jobs = <<[NoJob EXCEPT !.state = "waiting",
                                  !.priority = JobPriority(isVip)]>>
        /\ waitList = IF isVip THEN <<>> ELSE <<1>>
        /\ prioritized = IF isVip THEN <<1>> ELSE <<>>
        /\ runs = <<NoRun>>
        /\ failedEvents = {}
        /\ net = <<0>>
        /\ response = <<"NONE">>
        /\ stale = <<NoRun>>
        /\ handled = <<"none">>
        /\ faultBudget = 0
        /\ paymentBudget = attempts

NextRetry ==
    \/ \E j \in DOMAIN jobs : Dispatch(j)
    \/ \E j \in DOMAIN jobs : FindById(j)
    \/ \E j \in DOMAIN jobs : FindOneAndUpdate(j)
    \/ \E j \in DOMAIN jobs : PaymentFail(j)
    \/ \E j \in DOMAIN jobs : ConfirmWrite(j)
    \/ \E j \in DOMAIN jobs : Rollback(j)
    \/ \E j \in DOMAIN jobs : Rethrow(j)
    \/ \E j \in DOMAIN jobs : BusinessFail(j)
    \/ \E j \in DOMAIN jobs : MoveToFailed(j)
    \/ \E j \in DOMAIN jobs : Ack(j)
    \/ \E j \in DOMAIN jobs : PromoteDelayed(j)
    \/ \E j \in DOMAIN jobs : HandleFailedJob(j)

SpecRetry == InitRetry /\ [][NextRetry]_vars

\* The pipeline with queue.add able to fail, under fair scheduling: every
\* step of createOrder, of the workers, of the queue and of the DLQ listener
\* that stays possible is taken in the end.  Submissions, payment failures
\* and enqueue failures are free to happen or not.
InitLive ==
    /\ stock = NewStock(InitQty)
    /\ initialQty = InitQty
    /\ orders = [o \in OrderIds |-> NoOrder]
    /\ intake = [o \in OrderIds |-> "idle"]
    /\ jobs = [o \in OrderIds |-> NoJob]
    /\ waitList = <<>>
    /\ prioritized = <<>>
    /\ runs = [o \in OrderIds |-> NoRun]
    /\ failedEvents = {}
    /\ net = [o \in OrderIds |-> 0]
    /\ response = [o \in OrderIds |-> "NONE"]
    /\ stale = [o \in OrderIds |-> NoRun]
    /\ handled = [o \in OrderIds |-> "none"]
    /\ faultBudget = MaxFaults
    /\ paymentBudget = MaxPaymentFailures

NextLive ==
    \/ Next
    \/ \E o \in DOMAIN orders : CreateOrderEnqueueFails(o)

FairLive ==
    \A j \in OrderIds :
        /\ WF_vars(CreateOrderEnqueue(j))
        /\ WF_vars(Dispatch(j))
        /\ WF_vars(FindById(j))
        /\ WF_vars(FindOneAndUpdate(j))
        /\ WF_vars(ConfirmWrite(j))
        /\ WF_vars(Rollback(j))
        /\ WF_vars(Rethrow(j))
        /\ WF_vars(BusinessFail(j))
        /\ WF_vars(MoveToFailed(j))
        /\ WF_vars(Ack(j))
        /\ WF_vars(PromoteDelayed(j))
        /\ WF_vars(HandleFailedJob(j))

SpecLive == InitLive /\ [][NextLive]_vars /\ FairLive

\* The pipeline when the payment step succeeds on every attempt, on a stock
\* of any quantity; queue.add may fail.
InitPaid ==
    /\ initialQty \in 1..MaxInitQty
    /\ stock = NewStock(initialQty)
    /\ orders = [o \in OrderIds |-> NoOrder]
    /\ intake = [o \in OrderIds |-> "idle"]
    /\ jobs = [o \in OrderIds |-> NoJob]
    /\ waitList = <<>>
    /\ prioritized = <<>>
    /\ runs = [o \in OrderIds |-> NoRun]
    /\ failedEvents = {}
    /\ net = [o \in OrderIds |-> 0]
    /\ response = [o \in OrderIds |-> "NONE"]
    /\ stale = [o \in OrderIds |-> NoRun]
    /\ handled = [o \in OrderIds |-> "none"]
    /\ faultBudget = MaxFaults
    /\ paymentBudget = 0

NextPaid ==
    \/ \E o \in DOMAIN orders, qty \in 1..MaxOrderQty, isVip \in BOOLEAN :
            CreateOrderSave(o, qty, isVip)
    \/ \E o \in DOMAIN orders : CreateOrderEnqueue(o)
    \/ \E o \in DOMAIN orders : CreateOrderEnqueueFails(o)
    \/ \E j \in DOMAIN jobs : Dispatch(j)
    \/ \E j \in DOMAIN jobs : FindById(j)
    \/ \E j \in DOMAIN jobs : FindOneAndUpdate(j)
    \/ \E j \in DOMAIN jobs : ConfirmWrite(j)
    \/ \E j \in DOMAIN jobs : BusinessFail(j)
    \/ \E j \in DOMAIN jobs : MoveToFailed(j)
    \/ \E j \in DOMAIN jobs : Ack(j)
    \/ \E j \in DOMAIN jobs : HandleFailedJob(j)

SpecPaid == InitPaid /\ [][NextPaid]_vars

\* The requests POST /orders alone, against a stock that may have no record
\* or lose it between two requests; queue.add may fail.
InitIntake ==
    /\ initialQty \in 0..MaxInitQty
    /\ stock \in {[exists |-> e, quantity |-> initialQty, version |-> 0] :
                    e \in BOOLEAN}
    /\ orders = [o \in OrderIds |-> NoOrder]
    /\ intake = [o \in OrderIds |-> "idle"]
    /\ jobs = [o \in OrderIds |-> NoJob]
    /\ waitList = <<>>
    /\ prioritized = <<>>
    /\ runs = [o \in OrderIds |-> NoRun]
    /\ failedEvents = {}
    /\ net = [o \in OrderIds |-> 0]
    /\ response = [o \in OrderIds |-> "NONE"]
    /\ stale = [o \in OrderIds |-> NoRun]
    /\ handled = [o \in OrderIds |-> "none"]
    /\ faultBudget = MaxFaults
    /\ paymentBudget = 0

NextIntake ==
    \/ \E o \in DOMAIN orders, qty \in 1..MaxOrderQty, isVip \in BOOLEAN :
            CreateOrderSave(o, qty, isVip)
    \/ \E o \in DOMAIN orders : CreateOrderNotFound(o)
    \/ \E o \in DOMAIN orders : CreateOrderEnqueue(o)
    \/ \E o \in DOMAIN orders : CreateOrderEnqueueFails(o)
    \/ \E o \in DOMAIN orders : CreateOrderRespond(o)
    \/ RemoveStock

SpecIntake == InitIntake /\ [][NextIntake]_vars

\* The requests POST /orders with the workers running beside the request
\* handlers; the payment step succeeds.
InitRespond ==
    /\ stock = NewStock(InitQty)
    /\ initialQty = InitQty
    /\ orders = [o \in OrderIds |-> NoOrder]
    /\ intake = [o \in OrderIds |-> "idle"]
    /\ jobs = [o \in OrderIds |-> NoJob]
    /\ waitList = <<>>
    /\ prioritized = <<>>
    /\ runs = [o \in OrderIds |-> NoRun]
    /\ failedEvents = {}
    /\ net = [o \in OrderIds |-> 0]
    /\ response = [o \in OrderIds |-> "NONE"]
    /\ stale = [o \in OrderIds |-> NoRun]
    /\ handled = [o \in OrderIds |-> "none"]
    /\ faultBudget = 0
    /\ paymentBudget = 0

NextRespond ==
    \/ \E o \in DOMAIN orders, qty \in 1..MaxOrderQty, isVip \in BOOLEAN :
            CreateOrderSave(o, qty, isVip)
    \/ \E o \in DOMAIN orders : CreateOrderEnqueue(o)
    \/ \E o \in DOMAIN orders : CreateOrderRespond(o)
    \/ \E j \in DOMAIN jobs : Dispatch(j)
    \/ \E j \in DOMAIN jobs : FindById(j)
    \/ \E j \in DOMAIN jobs : FindOneAndUpdate(j)
    \/ \E j \in DOMAIN jobs : ConfirmWrite(j)
    \/ \E j \in DOMAIN jobs : BusinessFail(j)
    \/ \E j \in DOMAIN jobs : MoveToFailed(j)
    \/ \E j \in DOMAIN jobs : Ack(j)
    \/ \E j \in DOMAIN jobs : HandleFailedJob(j)

SpecRespond == InitRespond /\ [][NextRespond]_vars

\* handleFailedJob called for failed jobs with any error message, the empty
\* one included, on orders in any status process() can have left them in.
FailedMessages == {<<>>, ErrPayment, ErrMaxRetries, ErrStalled}

InitDLQ ==
    /\ initialQty \in 0..MaxInitQty
    /\ stock = NewStock(initialQty)
    /\ orders \in [OrderIds ->
            {[status |-> st, failureReason |-> <<>>, quantity |-> 1,
              isVipOrder |-> FALSE] : st \in {"PENDING", "CONFIRMED"}}]
    /\ intake = [o \in OrderIds |-> "done"]
    /\ failedEvents \in SUBSET OrderIds
    /\ jobs \in [OrderIds ->
            {[NoJob EXCEPT !.state = "failed", !.attemptsMade = attempts,
                           !.failedReason = m] : m \in FailedMessages}
            \cup {[NoJob EXCEPT !.state = "completed", !.attemptsMade = 1]}]
    /\ \A o \in OrderIds :
            /\ o \in failedEvents <=> jobs[o].state = "failed"
            /\ jobs[o].state = "completed" => orders[o].status = "CONFIRMED"
    /\ waitList = <<>>
    /\ prioritized = <<>>
    /\ runs = [o \in OrderIds |-> NoRun]
    /\ net = [o \in OrderIds |-> 0]
    /\ response = [o \in OrderIds |-> "PENDING"]
    /\ stale = [o \in OrderIds |-> NoRun]
    /\ handled = [o \in OrderIds |-> "none"]
    /\ faultBudget = MaxFaults
    /\ paymentBudget = 0

NextDLQ ==
    \/ \E j \in DOMAIN jobs : HandleFailedJob(j)
    \/ \E j \in DOMAIN jobs : HandleFailedJobUpdateFails(j)

SpecDLQ == InitDLQ /\ [][NextDLQ]_vars

\* handleFailedJob called for failed jobs whose order may be gone from the
\* store, with an update that may raise.
InitDLQFaults ==
    /\ initialQty \in 0..MaxInitQty
    /\ stock = NewStock(initialQty)
    /\ orders \in [OrderIds ->
            {[status |-> st, failureReason |-> <<>>, quantity |-> 1,
              isVipOrder |-> FALSE] : st \in {"PENDING", "CONFIRMED"}}
            \cup {NoOrder}]
    /\ intake = [o \in OrderIds |-> "done"]
    /\ failedEvents = OrderIds
    /\ jobs \in [OrderIds ->
            {[NoJob EXCEPT !.state = "failed", !.attemptsMade = attempts,
                           !.failedReason = m] : m \in FailedMessages}]
    /\ waitList = <<>>
    /\ prioritized = <<>>
    /\ runs = [o \in OrderIds |-> NoRun]
    /\ net = [o \in OrderIds |-> 0]
    /\ response = [o \in OrderIds |-> "PENDING"]
    /\ stale = [o \in OrderIds |-> NoRun]
    /\ handled = [o \in OrderIds |-> "none"]
    /\ faultBudget = MaxFaults
    /\ paymentBudget = 0

NextDLQFaults ==
    \/ \E j \in DOMAIN jobs : HandleFailedJob(j)
    \/ \E j \in DOMAIN jobs : HandleFailedJobUpdateFails(j)

SpecDLQFaults == InitDLQFaults /\ [][NextDLQFaults]_vars

\* One call of process() from its start with room for two faults, so that
\* the CONFIRMED write and the rollback that follows it can both fail.
InitCompensate ==
    \E qty \in 1..MaxOrderQty, isVip \in BOOLEAN, made \in 0..(attempts - 1) :
        /\ initialQty \in 0..MaxInitQty
        /\ stock = NewStock(initialQty)
        /\ orders = <<[status |-> "PENDING", failureReason |-> <<>>,
                       quantity |-> qty, isVipOrder |-> isVip]>>
        /\ intake = <<"done">>
        /\ jobs = <<[NoJob EXCEPT !.state = "active",
                                  !.priority = JobPriority(isVip),
                                  !.attemptsMade = made]>>
        /\ waitList = <<>>
        /\ prioritized = <<>>
        /\ runs = <<[NoRun EXCEPT !.pc = "findById",
                                  !.startStatus = "PENDING"]>>
        /\ failedEvents = {}
        /\ net = <<0>>
        /\ response = <<"NONE">>
        /\ stale = <<NoRun>>
        /\ handled = <<"none">>
        /\ faultBudget = MaxFaults + 1
        /\ paymentBudget = 1

SpecCompensate == InitCompensate /\ [][NextProc]_vars

\* One job whose stock call fails with any of the error texts a stock
\* result can carry, the one of the unit test and the missing one included.
StockErrorTexts ==
    {ErrStockNotFound, ErrInsufficient(0, 1), ErrMaxRetries,
     ErrDatabase(ErrConnection), ErrVersionConflict, <<>>}

InitClassify ==
    \E qty \in 1..MaxOrderQty, isVip \in BOOLEAN :
        /\ initialQty \in 0..MaxInitQty
        /\ stock = NewStock(initialQty)
        /\ orders = <<[status |-> "PENDING", failureReason |-> <<>>,
                       quantity |-> qty, isVipOrder |-> isVip]>>
        /\ intake = <<"done">>
        /\ jobs = <<[NoJob EXCEPT !.state = "waiting",
                                  !.priority = JobPriority(isVip)]>>
        /\ waitList = IF isVip THEN <<>> ELSE <<1>>
        /\ prioritized = IF isVip THEN <<1>> ELSE <<>>
        /\ runs = <<NoRun>>
        /\ failedEvents = {}
        /\ net = <<0>>
        /\ response = <<"NONE">>
        /\ stale = <<NoRun>>
        /\ handled = <<"none">>
        /\ faultBudget = 0
        /\ paymentBudget = 0

NextClassify ==
    \/ \E j \in DOMAIN jobs : Dispatch(j)
    \/ \E j \in DOMAIN jobs, e \in StockErrorTexts : DecrementStockFails(j, e)
    \/ \E j \in DOMAIN jobs : Rethrow(j)
    \/ \E j \in DOMAIN jobs : BusinessFail(j)
    \/ \E j \in DOMAIN jobs : MoveToFailed(j)
    \/ \E j \in DOMAIN jobs : PromoteDelayed(j)
    \/ \E j \in DOMAIN jobs : HandleFailedJob(j)

SpecClassify == InitClassify /\ [][NextClassify]_vars

\* One call of process() for a job whose order document may be gone from
\* the store; the record of an absent order (status NONE) keeps the quantity
\* of the job's payload.
InitOrphan ==
    \E qty \in 1..MaxOrderQty, isVip \in BOOLEAN, made \in 0..(attempts - 1),
       st \in {"PENDING", "NONE"} :
        /\ initialQty \in 0..MaxInitQty
        /\ stock = NewStock(initialQty)
        /\ orders = <<[status |-> st, failureReason |-> <<>>,
                       quantity |-> qty, isVipOrder |-> isVip]>>
        /\ intake = <<"done">>
        /\ jobs = <<[NoJob EXCEPT !.state = "active",
                                  !.priority = JobPriority(isVip),
                                  !.attemptsMade = made]>>
        /\ waitList = <<>>
        /\ prioritized = <<>>
        /\ runs = <<[NoRun EXCEPT !.pc = "findById", !.startStatus = st]>>
        /\ failedEvents = {}
        /\ net = <<0>>
        /\ response = <<"NONE">>
        /\ stale = <<NoRun>>
        /\ handled = <<"none">>
        /\ faultBudget = 0
        /\ paymentBudget = 1

NextOrphan ==
    \/ \E j \in DOMAIN jobs : FindById(j)
    \/ \E j \in DOMAIN jobs : FindOneAndUpdate(j)
    \/ \E j \in DOMAIN jobs : PaymentFail(j)
    \/ \E j \in DOMAIN jobs : ConfirmWrite(j)
    \/ \E j \in DOMAIN jobs : Rollback(j)
    \/ \E j \in DOMAIN jobs : Rethrow(j)
    \/ \E j \in DOMAIN jobs : BusinessFail(j)
    \/ \E j \in DOMAIN jobs : MoveToFailed(j)
    \/ \E j \in DOMAIN jobs : Ack(j)
    \/ \E j \in DOMAIN jobs : HandleFailedJob(j)

SpecOrphan == InitOrphan /\ [][NextOrphan]_vars

\* One call of process() and an admin who sets the stock's quantity at any
\* moment; no second worker.
InitAdmin ==
    \E qty \in 1..MaxOrderQty, isVip \in BOOLEAN, made \in 0..(attempts - 1) :
        /\ initialQty \in 0..MaxInitQty
        /\ stock = NewStock(initialQty)
        /\ orders = <<[status |-> "PENDING", failureReason |-> <<>>,
                       quantity |-> qty, isVipOrder |-> isVip]>>
        /\ intake = <<"done">>
        /\ jobs = <<[NoJob EXCEPT !.state = "active",
                                  !.priority = JobPriority(isVip),
                                  !.attemptsMade = made]>>
        /\ waitList = <<>>
        /\ prioritized = <<>>
        /\ runs = <<[NoRun EXCEPT !.pc = "findById",
                                  !.startStatus = "PENDING"]>>
        /\ failedEvents = {}
        /\ net = <<0>>
        /\ response = <<"NONE">>
        /\ stale = <<NoRun>>
        /\ handled = <<"none">>
        /\ faultBudget = MaxFaults
        /\ paymentBudget = 0

NextAdmin ==
    \/ \E j \in DOMAIN jobs : FindById(j)
    \/ \E j \in DOMAIN jobs : FindOneAndUpdate(j)
    \/ \E j \in DOMAIN jobs : ConfirmWrite(j)
    \/ \E j \in DOMAIN jobs : BusinessFail(j)
    \/ \E j \in DOMAIN jobs : MoveToFailed(j)
    \/ \E j \in DOMAIN jobs : Ack(j)
    \/ \E q \in 0..MaxInitQty : UpdateStock(q)

SpecAdmin == InitAdmin /\ [][NextAdmin]_vars

\* One job whose handler may lose the job's lock while it is still running,
\* with a second worker free to fetch the job again.
InitSlow ==
    \E qty \in 1..MaxOrderQty, isVip \in BOOLEAN :
        /\ initialQty \in 0..MaxInitQty
        /\ stock = NewStock(initialQty)
        /\ orders = <<[status |-> "PENDING", failureReason |-> <<>>,
                       quantity |-> qty, isVipOrder |-> isVip]>>
        /\ intake = <<"done">>
        /\ jobs = <<[NoJob EXCEPT !.state = "waiting",
                                  !.priority = JobPriority(isVip)]>>
        /\ waitList = IF isVip THEN <<>> ELSE <<1>>
        /\ prioritized = IF isVip THEN <<1>> ELSE <<>>
        /\ runs = <<NoRun>>
        /\ failedEvents = {}
        /\ net = <<0>>
        /\ response = <<"NONE">>
        /\ stale = <<NoRun>>
        /\ handled = <<"none">>
        /\ faultBudget = MaxFaults
        /\ paymentBudget = 0

NextSlow ==
    \/ \E j \in DOMAIN jobs : Dispatch(j)
    \/ \E j \in DOMAIN jobs : FindById(j)
    \/ \E j \in DOMAIN jobs : FindOneAndUpdate(j)
    \/ \E j \in DOMAIN jobs : ConfirmWrite(j)
    \/ \E j \in DOMAIN jobs : BusinessFail(j)
    \/ \E j \in DOMAIN jobs : MoveToFailed(j)
    \/ \E j \in DOMAIN jobs : Ack(j)
    \/ \E j \in DOMAIN jobs : HandleFailedJob(j)
    \/ \E j \in DOMAIN jobs : LockLost(j)
    \/ \E j \in DOMAIN jobs : StaleConfirmWrite(j)
    \/ \E j \in DOMAIN jobs : StaleReturn(j)

SpecSlow == InitSlow /\ [][NextSlow]_vars

\* One job whose worker may die while the job is active, more often than
\* the stalled-jobs check recovers a job, with a live worker left to run
\* the check and to fetch the job again.
InitStall ==
    \E qty \in 1..MaxOrderQty, isVip \in BOOLEAN :
        /\ initialQty \in 0..MaxInitQty
        /\ stock = NewStock(initialQty)
        /\ orders = <<[status |-> "PENDING", failureReason |-> <<>>,
                       quantity |-> qty, isVipOrder |-> isVip]>>
        /\ intake = <<"done">>
        /\ jobs = <<[NoJob EXCEPT !.state = "waiting",
                                  !.priority = JobPriority(isVip)]>>
        /\ waitList = IF isVip THEN <<>> ELSE <<1>>
        /\ prioritized = IF isVip THEN <<1>> ELSE <<>>
        /\ runs = <<NoRun>>
        /\ failedEvents = {}
        /\ net = <<0>>
        /\ response = <<"NONE">>
        /\ stale = <<NoRun>>
        /\ handled = <<"none">>
        /\ faultBudget = maxStalledCount + MaxFaults
        /\ paymentBudget = 0

NextStall ==
    \/ \E j \in DOMAIN jobs : Dispatch(j)
    \/ \E j \in DOMAIN jobs : FindById(j)
    \/ \E j \in DOMAIN jobs : FindOneAndUpdate(j)
    \/ \E j \in DOMAIN jobs : ConfirmWrite(j)
    \/ \E j \in DOMAIN jobs : BusinessFail(j)
    \/ \E j \in DOMAIN jobs : MoveToFailed(j)
    \/ \E j \in DOMAIN jobs : Ack(j)
    \/ \E j \in DOMAIN jobs : HandleFailedJob(j)
    \/ \E j \in DOMAIN jobs : WorkerDies(j)
    \/ \E j \in DOMAIN jobs : MoveStalledJobsToWait(j)

\* The live worker keeps running: its steps, its fetches and its
\* stalled-jobs check are taken when they stay enabled; a worker's death is
\* never forced.
FairStall ==
    \A j \in {1} :
        /\ WF_vars(Dispatch(j))
        /\ WF_vars(FindById(j))
        /\ WF_vars(FindOneAndUpdate(j))
        /\ WF_vars(ConfirmWrite(j))
        /\ WF_vars(BusinessFail(j))
        /\ WF_vars(MoveToFailed(j))
        /\ WF_vars(Ack(j))
        /\ WF_vars(HandleFailedJob(j))
        /\ WF_vars(MoveStalledJobsToWait(j))

SpecStall == InitStall /\ [][NextStall]_vars /\ FairStall

\* MaxCallers concurrent calls decrementStockAtomic(S, n) with one n >= 0 on
\* a stock of any quantity, and no other writer.
InitReserve ==
    \E n \in 0..MaxOrderQty :
        /\ initialQty \in 0..MaxInitQty
        /\ stock = NewStock(initialQty)
        /\ orders = [o \in Callers |->
                [status |-> "PENDING", failureReason |-> <<>>, quantity |-> n,
                 isVipOrder |-> FALSE]]
        /\ intake = [o \in Callers |-> "done"]
        /\ jobs = [o \in Callers |-> [NoJob EXCEPT !.state = "active"]]
        /\ waitList = <<>>
        /\ prioritized = <<>>
        /\ runs = [o \in Callers |->
                [NoRun EXCEPT !.pc = "findById", !.startStatus = "PENDING"]]
        /\ failedEvents = {}
        /\ net = [o \in Callers |-> 0]
        /\ response = [o \in Callers |-> "NONE"]
        /\ stale = [o \in Callers |-> NoRun]
        /\ handled = [o \in Callers |-> "none"]
        /\ faultBudget = 0
        /\ paymentBudget = 0

NextReserve ==
    \/ \E j \in DOMAIN jobs : FindById(j)
    \/ \E j \in DOMAIN jobs : FindOneAndUpdate(j)

SpecReserve == InitReserve /\ [][NextReserve]_vars

\* ------------------------------------------------------------ properties
RECURSIVE SumOver(_, _)
SumOver(f, S) ==
    IF S = {} THEN 0
    ELSE LET x == CHOOSE y \in S : TRUE IN f[x] + SumOver(f, S \ {x})

ConfirmedOrders == {o \in DOMAIN orders : orders[o].status = "CONFIRMED"}
ConfirmedQuantity ==
    SumOver([o \in DOMAIN orders |-> orders[o].quantity], ConfirmedOrders)

\* No job is waiting, delayed or active.
Quiescent ==
    \A j \in DOMAIN jobs : jobs[j].state \notin {"waiting", "delayed", "active"}

\* The calls of decrementStockAtomic that have returned success.
Succeeded == {j \in DOMAIN runs : runs[j].reserved > 0}

\* The failed stock results process() is meant to treat as business failures.
IsBusinessResult(error) ==
    \/ error = ErrStockNotFound
    \/ Includes(error, <<"Insufficient", "stock">>)

\* C1: No oversell: in every reachable state, under any interleaving of the
\* workers' decrementStockAtomic and incrementStockAtomic calls on the stock,
\* the stock's quantity is >= 0.
C1_NoOversell == stock.quantity >= 0

\* C2: Of N concurrent decrementStockAtomic(S, 1) calls on a stock of
\* quantity K with no other writer, at most K return success, whatever the
\* interleaving of their reads and conditional updates; a call that fails
\* has changed nothing.
C2_AtMostKSucceed ==
    /\ Cardinality(Succeeded) <= initialQty
    /\ \A j \in DOMAIN runs : runs[j].pc = "business" => net[j] = 0

\* C3: Conservation: in every quiescent state the stock's quantity equals
\* its initial quantity minus the sum of the quantities of the CONFIRMED
\* orders, for any workload of submissions, worker attempts, payment failures
\* and retries.
C3_Conservation ==
    Quiescent => stock.quantity = initialQty - ConfirmedQuantity

\* A quiescent state with a confirmed order whose job was retried after a
\* payment failure, and a failed order.
C3_Witness ==
    /\ Quiescent
    /\ \E o \in DOMAIN orders :
        orders[o].status = "CONFIRMED" /\ jobs[o].attemptsMade >= 1
    /\ \E o \in DOMAIN orders : orders[o].status = "FAILED"

\* C4: Sticky terminal: once an order's status is CONFIRMED or FAILED, no
\* later write (a worker's CONFIRMED write, a worker's business-failure
\* write, the DLQ listener's write) changes it.
C4_StickyTerminal ==
    [][\A o \in DOMAIN orders :
        orders[o].status \in Terminal => orders'[o].status = orders[o].status
      ]_vars

\* C5: Idempotent redelivery: a call of process() for a job whose order is
\* already CONFIRMED or FAILED has no side effect: it takes nothing from the
\* stock and the order keeps the status it had when the call began.
C5_IdempotentRedelivery ==
    \A j \in DOMAIN runs :
        (runs[j].pc # "idle" /\ runs[j].startStatus \in Terminal) =>
            /\ runs[j].reserved = 0
            /\ orders[j].status = runs[j].startStatus

\* C6: At most one reservation per order: the net quantity all attempts of
\* an order have taken from the stock is 0 or the order's quantity, and it
\* is the order's quantity whenever the order is CONFIRMED, across retries,
\* failed compensations and redeliveries.
C6_AtMostOneReservation ==
    \A o \in DOMAIN orders :
        /\ net[o] \in {0, orders[o].quantity}
        /\ orders[o].status = "CONFIRMED" => net[o] = orders[o].quantity

\* C7: Compensation ordering: in an attempt whose decrement succeeded and
\* whose payment step or CONFIRMED write then raised, incrementStockAtomic
\* has been called with the same quantity before the error is thrown again,
\* so the job is handed back to the queue only after the release.
C7_CompensationOrdering ==
    /\ [](\A j \in DOMAIN runs :
            (runs[j].pc = "rethrow" /\ runs[j].reserved > 0) =>
                runs[j].released = runs[j].reserved)
    /\ [][\A j \in DOMAIN runs :
            (/\ runs[j].reserved > 0
             /\ jobs[j].state = "active"
             /\ jobs'[j].state \in {"delayed", "failed"}) =>
                runs[j].released = runs[j].reserved
         ]_vars

\* An attempt about to throw after a successful decrement and a release.
C7_Witness ==
    \E j \in DOMAIN runs :
        /\ runs[j].pc = "rethrow"
        /\ runs[j].reserved > 0
        /\ runs[j].released = runs[j].reserved
        /\ runs[j].error \in {ErrPayment, ErrConnection}

\* C8: Business failure is terminal: when the decrement reports insufficient
\* stock or stock not found, process() writes FAILED with that reason on the
\* order, calls job.moveToFailed and returns without throwing; it has taken
\* nothing from the stock and released nothing.
C8_BusinessFailureTerminal ==
    /\ [](\A j \in DOMAIN runs :
            (runs[j].pc # "idle" /\ IsBusinessResult(runs[j].error)) =>
                /\ runs[j].pc \in {"business", "moveToFailed"}
                /\ runs[j].reserved = 0
                /\ runs[j].released = 0
                /\ runs[j].pc = "moveToFailed" =>
                    /\ orders[j].status = "FAILED"
                    /\ orders[j].failureReason = runs[j].error)
    /\ [][\A j \in DOMAIN runs :
            (runs[j].pc = "moveToFailed" /\ runs'[j].pc # "moveToFailed") =>
                /\ runs'[j].pc = "idle"
                /\ jobs'[j].state = "failed"
                /\ jobs'[j].failedReason = runs[j].error
                /\ stock' = stock
                /\ orders' = orders
         ]_vars

\* A job failed by process() for a business reason, its order FAILED with
\* that reason.
C8_Witness ==
    \E j \in DOMAIN jobs :
        /\ jobs[j].state = "failed"
        /\ IsBusinessResult(jobs[j].failedReason)
        /\ orders[j].status = "FAILED"
        /\ orders[j].failureReason = jobs[j].failedReason
        /\ runs[j].pc = "idle"

C10_PriorityDominance ==
    [][\A j \in DOMAIN jobs :
        (/\ jobs[j].state = "waiting"
         /\ jobs'[j].state = "active"
         /\ jobs[j].priority # PRIORITY_VIP) =>
            ~ \E k \in DOMAIN jobs :
                jobs[k].state = "waiting" /\ jobs[k].priority = PRIORITY_VIP
      ]_vars

\* C11: Bounded retry: a job whose handler throws is scheduled again until it
\* has been attempted 5 times in all; the 5th failed attempt leaves the job
\* failed with a 'failed' event emitted, and the handler is never called a
\* 6th time for it.
C11_BoundedRetry ==
    /\ [](\A j \in DOMAIN jobs :
            /\ jobs[j].attemptsMade <= attempts
            /\ jobs[j].state \in {"waiting", "delayed", "active"} =>
                    jobs[j].attemptsMade < attempts)
    /\ [][\A j \in DOMAIN jobs :
            /\ (runs[j].pc = "rethrow" /\ runs'[j].pc = "idle") =>
                    IF jobs[j].attemptsMade + 1 < attempts
                    THEN jobs'[j].state = "delayed"
                    ELSE jobs'[j].state = "failed" /\ j \in failedEvents'
            /\ jobs[j].state = "failed" => jobs'[j].state = "failed"
         ]_vars

\* A job failed by its 5th throwing attempt.
C11_Witness ==
    \E j \in DOMAIN jobs :
        /\ jobs[j].state = "failed"
        /\ jobs[j].attemptsMade = attempts
        /\ jobs[j].failedReason = ErrPayment

\* C12: Bypass: after process() has called job.moveToFailed for a business
\* failure the job is failed and is never dispatched again, even with fewer
\* than 5 attempts made.
C12_Bypass ==
    [][\A j \in DOMAIN jobs :
        /\ (runs[j].pc = "moveToFailed" /\ runs'[j].pc = "idle") =>
                jobs'[j].state = "failed"
        /\ (jobs[j].state = "failed" /\ IsBusinessResult(jobs[j].failedReason))
                => jobs'[j].state = "failed"
      ]_vars

\* A job failed through moveToFailed on its first attempt, its event handled.
C12_Witness ==
    \E j \in DOMAIN jobs :
        /\ jobs[j].state = "failed"
        /\ IsBusinessResult(jobs[j].failedReason)
        /\ jobs[j].attemptsMade < attempts
        /\ j \notin failedEvents

\* C13: Every order reaches a terminal decision: under fair scheduling of
\* the workers and of the queue, every order a submission has created is
\* CONFIRMED or FAILED in the end, the orders whose enqueue failed and the
\* orders whose job used up its attempts included.
C13_EveryOrderDecided ==
    \A o \in OrderIds :
        (orders[o].status = "PENDING") ~> (orders[o].status \in Terminal)

\* The job of j has failed on every one of its 5 attempts in the payment
\* step, and the listener has handled its 'failed' event.
PaymentExhausted(j) ==
    /\ jobs[j].state = "failed"
    /\ jobs[j].attemptsMade = attempts
    /\ jobs[j].failedReason = ErrPayment
    /\ j \notin failedEvents

C15_RetryThenSuccess ==
    /\ [](\A j \in DOMAIN jobs :
            (jobs[j].state = "completed" /\ jobs[j].attemptsMade = 1) =>
                /\ orders[j].status = "CONFIRMED"
                /\ orders[j].failureReason = <<>>
                /\ net[j] = orders[j].quantity
                /\ stock.quantity = initialQty - orders[j].quantity)
    /\ [][\A j \in DOMAIN jobs :
            jobs[j].state = "completed" =>
                jobs'[j].state = "completed" /\ runs'[j].pc = "idle"
         ]_vars

\* A job completed on its second attempt, after one payment failure.
C15_Witness ==
    \E j \in DOMAIN jobs :
        /\ jobs[j].state = "completed"
        /\ jobs[j].attemptsMade = 1
        /\ paymentBudget = attempts - 1
        /\ orders[j].status = "CONFIRMED"

\* The orders whose createOrder call has returned with a job in the queue.
Submitted == {o \in DOMAIN orders : intake[o] = "done"}
FailedOrders == {o \in DOMAIN orders : orders[o].status = "FAILED"}
TotalOrdered ==
    SumOver([o \in DOMAIN orders |-> orders[o].quantity], Submitted)

\* No createOrder call is under way, every job has ended and every 'failed'
\* event has been handled.
Settled ==
    /\ Quiescent
    /\ failedEvents = {}
    /\ \A o \in DOMAIN orders : intake[o] # "saved"

\* C16: Concurrent same-stock orders that fit: when several orders on one
\* stock are processed by concurrent workers, their total quantity is not
\* above the stock's quantity and the payment step succeeds, every order
\* ends CONFIRMED and the final quantity is the initial quantity minus the
\* total ordered.
C16_ConcurrentOrdersThatFit ==
    (Settled /\ Cardinality(Submitted) >= 2 /\ TotalOrdered <= initialQty) =>
        /\ \A o \in Submitted :
                orders[o].status = "CONFIRMED" /\ orders[o].failureReason = <<>>
        /\ stock.quantity = initialQty - TotalOrdered

\* All the orders submitted fit the stock, and all are confirmed.
C16_Witness ==
    /\ Settled
    /\ Cardinality(Submitted) = Cardinality(DOMAIN orders)
    /\ TotalOrdered <= initialQty
    /\ \A o \in Submitted : orders[o].status = "CONFIRMED"

\* C17: Depletion: with a stock of quantity K and concurrently processed
\* orders of one quantity q whose total is above K (5 orders of 2 on a stock
\* of 5), when all jobs are settled exactly K div q orders are CONFIRMED, the
\* others are FAILED with a failureReason containing "Insufficient", and the
\* stock's final quantity is K - q * (K div q).
C17_Depletion ==
    \A q \in 1..MaxOrderQty :
        (/\ Settled
         /\ Cardinality(Submitted) >= 2
         /\ \A o \in Submitted : orders[o].quantity = q
         /\ TotalOrdered > initialQty) =>
            /\ Cardinality(ConfirmedOrders) = initialQty \div q
            /\ Submitted \ ConfirmedOrders = FailedOrders
            /\ \A o \in FailedOrders :
                    Includes(orders[o].failureReason, <<"Insufficient">>)
            /\ stock.quantity = initialQty - q * (initialQty \div q)

\* C19: Intake: each successful createOrder call creates exactly one new
\* order with status PENDING and enqueues exactly one job for that order,
\* with priority 1 when the user is VIP and no priority otherwise; N
\* submissions, identical or not, make N distinct orders and N distinct jobs.
C19_Intake ==
    /\ [](Cardinality({o \in DOMAIN orders : orders[o].status # "NONE"})
            = Cardinality({o \in DOMAIN orders : intake[o] # "idle"})
         /\ Cardinality({j \in DOMAIN jobs : jobs[j].state # "none"})
            = Cardinality(Submitted))
    /\ [][\A o \in DOMAIN orders :
            /\ (intake[o] = "idle" /\ intake'[o] = "saved") =>
                    /\ orders[o].status = "NONE"
                    /\ orders'[o].status = "PENDING"
                    /\ \A p \in DOMAIN orders \ {o} : orders'[p] = orders[p]
                    /\ jobs' = jobs
            /\ (intake[o] = "saved" /\ intake'[o] = "done") =>
                    /\ orders' = orders
                    /\ jobs[o].state = "none"
                    /\ jobs'[o].state = "waiting"
                    /\ jobs'[o].attemptsMade = 0
                    /\ \A p \in DOMAIN jobs \ {o} : jobs'[p] = jobs[p]
                    /\ IF orders[o].isVipOrder
                       THEN /\ jobs'[o].priority = PRIORITY_VIP
                            /\ Len(prioritized') = Len(prioritized) + 1
                            /\ waitList' = waitList
                       ELSE /\ jobs'[o].priority = 0
                            /\ waitList' = Append(waitList, o)
                            /\ prioritized' = prioritized
         ]_vars

\* Two submissions with the same payload, each with its own order and job.
C19_Witness ==
    \E o, p \in Submitted :
        /\ o # p
        /\ orders[o].quantity = orders[p].quantity
        /\ orders[o].isVipOrder = orders[p].isVipOrder
        /\ jobs[o].state # "none"
        /\ jobs[p].state # "none"

\* C20: Enqueue failure: when queue.add fails inside createOrder, the order
\* already saved stays in the store with status PENDING (neither deleted nor
\* marked FAILED), no job exists for it, and the error goes to the caller.
C20_EnqueueFailure ==
    /\ [](\A o \in DOMAIN orders :
            intake[o] = "failed" =>
                /\ orders[o].status = "PENDING"
                /\ orders[o].failureReason = <<>>
                /\ jobs[o].state = "none"
                /\ runs[o].pc = "idle"
                /\ o \notin failedEvents)
    /\ [][\A o \in DOMAIN orders :
            (intake[o] = "saved" /\ intake'[o] = "failed") =>
                orders' = orders /\ jobs' = jobs /\ stock' = stock
         ]_vars

\* An order left PENDING by a failed enqueue while another order has gone
\* through the pipeline.
C20_Witness ==
    \E o, p \in DOMAIN orders :
        /\ intake[o] = "failed"
        /\ orders[o].status = "PENDING"
        /\ orders[p].status \in Terminal
        /\ Settled

\* C18: Happy path: when the decrement, the payment step and the order write
\* all succeed, process() returns normally with the order CONFIRMED and its
\* failureReason empty, the stock's quantity lower by exactly the order's
\* quantity, the stock's version higher by exactly 1, and no compensating
\* increment issued.
C18_HappyPath ==
    \A j \in DOMAIN runs :
        runs[j].pc = "ack" =>
            /\ orders[j].status = "CONFIRMED"
            /\ orders[j].failureReason = <<>>
            /\ runs[j].released = 0
            /\ net[j] = orders[j].quantity
            /\ stock.quantity = initialQty - orders[j].quantity
            /\ stock.version = runs[j].snapVersion + 1

\* C21: Intake rejects an unknown stock synchronously: a createOrder call
\* for a stock that has no record fails with NotFound, creates no order and
\* enqueues no job.
C21_IntakeRejectsUnknownStock ==
    /\ [](\A o \in DOMAIN orders :
            intake[o] = "rejected" =>
                /\ orders[o] = NoOrder
                /\ jobs[o] = NoJob
                /\ response[o] = "NONE")
    /\ [][\A o \in DOMAIN orders :
            /\ (intake[o] = "idle" /\ ~stock.exists /\ intake'[o] # "idle") =>
                    /\ intake'[o] = "rejected"
                    /\ orders' = orders
                    /\ jobs' = jobs
                    /\ waitList' = waitList
                    /\ prioritized' = prioritized
            /\ intake[o] = "rejected" => intake'[o] = "rejected"
         ]_vars

\* A call rejected after the stock was deleted, beside an order made before.
C21_Witness ==
    \E o, p \in DOMAIN orders :
        /\ intake[o] = "rejected"
        /\ orders[o].status = "NONE"
        /\ orders[p].status # "NONE"

C23_VersionDiscipline ==
    [][/\ stock'.version >= stock.version
       /\ stock'.quantity # stock.quantity =>
                stock'.version = stock.version + 1
       /\ stock'.quantity = stock.quantity =>
                stock'.version = stock.version
      ]_vars

\* C24: Over-reservation does not mutate: when decrementStockAtomic(S, n)
\* reads a quantity smaller than n, it returns a failure whose error starts
\* with "Insufficient stock" and leaves the stock's quantity and version as
\* they are.
C24_OverReservationDoesNotMutate ==
    [][\A j \in DOMAIN runs :
        (/\ runs[j].pc = "findById"
         /\ runs'[j] # runs[j]
         /\ stock.exists
         /\ stock.quantity < orders[j].quantity) =>
            /\ Len(runs'[j].error) >= 2
            /\ SubSeq(runs'[j].error, 1, 2) = <<"Insufficient", "stock">>
            /\ runs'[j].pc = "business"
            /\ runs'[j].reserved = 0
            /\ net'[j] = net[j]
            /\ stock' = stock
      ]_vars

\* A call refused for insufficient stock after other calls took the stock.
C24_Witness ==
    \E j \in DOMAIN runs :
        /\ Includes(runs[j].error, <<"Insufficient", "stock">>)
        /\ net[j] = 0
        /\ stock.quantity < orders[j].quantity
        /\ stock.quantity < initialQty

\* C26: A reservation of n = 0 is rejected as invalid input:
\* decrementStockAtomic(S, 0) returns a failure and changes neither the
\* stock's quantity nor its version.
C26_ZeroRejected ==
    \A j \in DOMAIN runs :
        orders[j].quantity = 0 =>
            /\ runs[j].pc # "payment"
            /\ stock = NewStock(initialQty)

\* C25: The reservation retry loop is bounded: one decrementStockAtomic call
\* makes at most maxRetries = 3 read-then-conditional-update iterations, each
\* from a fresh read, every step of the loop leaves it or moves it forward,
\* and the third lost race returns the version-conflict failure.
C25_RetryLoopBounded ==
    /\ [](\A j \in DOMAIN runs :
            /\ runs[j].retryCount <= maxRetries
            /\ runs[j].pc \in {"findById", "findOneAndUpdate"} =>
                    runs[j].retryCount < maxRetries
            /\ runs[j].retryCount = maxRetries =>
                    runs[j].error = ErrMaxRetries)
    /\ [][\A j \in DOMAIN runs :
            /\ (runs[j].pc = "findById" /\ runs'[j] # runs[j]) =>
                    \/ /\ runs'[j].pc = "findOneAndUpdate"
                       /\ runs'[j].snapVersion = stock.version
                       /\ runs'[j].retryCount = runs[j].retryCount
                    \/ runs'[j].pc \in {"business", "rethrow"}
            /\ (runs[j].pc = "findOneAndUpdate" /\ runs'[j] # runs[j]) =>
                    \/ /\ runs'[j].pc = "findById"
                       /\ runs'[j].retryCount = runs[j].retryCount + 1
                       /\ stock' = stock
                    \/ /\ runs'[j].pc = "rethrow"
                       /\ runs'[j].error = ErrMaxRetries
                       /\ runs'[j].retryCount = maxRetries
                       /\ runs[j].retryCount = maxRetries - 1
                       /\ stock' = stock
                    \/ /\ runs'[j].pc \in {"payment", "business", "rethrow"}
                       /\ runs'[j].retryCount = runs[j].retryCount
         ]_vars

\* A call that lost its last race to a deletion and returned the
\* version-conflict failure without touching the stock.
C25_Witness ==
    \E j \in DOMAIN runs :
        /\ runs[j].retryCount = maxRetries
        /\ Includes(runs[j].error, <<"version", "conflicts">>)
        /\ ~stock.exists
        /\ stock.quantity = initialQty
        /\ net[j] = 0

\* C27: Release: incrementStockAtomic(S, n) that the database answers
\* returns success with the quantity raised by exactly n, whatever the
\* quantity was, when the stock exists; on a missing stock it returns the
\* failure "Stock not found" and changes nothing.
C27_Release ==
    [][\A j \in DOMAIN runs :
        (/\ runs[j].pc = "rollback"
         /\ runs'[j] # runs[j]
         /\ faultBudget' = faultBudget) =>
            LET r == runs'[j].rollbackResult
                n == orders[j].quantity
            IN
            /\ r.called
            /\ IF stock.exists
               THEN /\ r.success
                    /\ stock'.exists
                    /\ stock'.quantity = stock.quantity + n
               ELSE /\ ~r.success
                    /\ r.error = ErrStockNotFound
                    /\ stock' = stock
      ]_vars

\* A rollback that gave back what the run had reserved.
C27_Witness ==
    \E j \in DOMAIN runs :
        /\ runs[j].rollbackResult = IncrementResult(TRUE, <<>>)
        /\ runs[j].released > 0
        /\ stock.exists
        /\ stock.quantity = initialQty

\* C28: Backoff schedule: with exponential backoff, base delay 2000 ms and
\* 5 attempts, the delay before the retry that follows failed attempt k is
\* 2000 * 2^(k-1) ms: 2 s, 4 s, 8 s and 16 s for k = 1..4.
C28_BackoffSchedule ==
    \A j \in DOMAIN jobs :
        jobs[j].state = "delayed" =>
            /\ jobs[j].attemptsMade \in 1..4
            /\ jobs[j].delay =
                    CASE jobs[j].attemptsMade = 1 -> 2000
                      [] jobs[j].attemptsMade = 2 -> 4000
                      [] jobs[j].attemptsMade = 3 -> 8000
                      [] jobs[j].attemptsMade = 4 -> 16000

\* A job waiting for its last retry after four failed attempts.
C28_Witness ==
    \E j \in DOMAIN jobs :
        /\ jobs[j].state = "delayed"
        /\ jobs[j].attemptsMade = 4
        /\ jobs[j].delay = 16000

\* C29: At-least-once delivery: a job that is active when its worker dies
\* or stops renewing its lock eventually returns to waiting and is
\* dispatched again, and no job stays active forever.
C29_AtLeastOnceDelivery ==
    \A j \in {1} :
        /\ (runs[j].pc = "dead") ~> (jobs[j].state = "waiting")
        /\ (runs[j].pc = "dead") ~>
                (jobs[j].state = "active" /\ runs[j].pc # "dead")
        /\ (jobs[j].state = "active") ~> (jobs[j].state # "active")

\* C30: DLQ observer: on a failed event for a job, handleFailedJob writes
\* status FAILED on the order the job's payload names, with failureReason
\* the error's message, or "Job processing failed after all retries" when
\* the message is empty; it writes to no other order and never touches
\* stock.
C30_DLQObserver ==
    [][\A j \in DOMAIN jobs :
        (/\ j \in failedEvents
         /\ j \notin failedEvents'
         /\ faultBudget' = faultBudget) =>
            /\ orders'[j].status = "FAILED"
            /\ orders'[j].failureReason =
                    IF jobs[j].failedReason = <<>>
                    THEN <<"Job", "processing", "failed", "after", "all",
                           "retries">>
                    ELSE jobs[j].failedReason
            /\ orders'[j].quantity = orders[j].quantity
            /\ orders'[j].isVipOrder = orders[j].isVipOrder
            /\ \A o \in DOMAIN orders \ {j} : orders'[o] = orders[o]
            /\ stock' = stock
            /\ jobs' = jobs
      ]_vars

\* An order failed with the default reason next to an order left alone.
C30_Witness ==
    \E j, o \in DOMAIN orders :
        /\ jobs[j].state = "failed"
        /\ jobs[j].failedReason = <<>>
        /\ j \notin failedEvents
        /\ orders[j].status = "FAILED"
        /\ orders[j].failureReason = ErrDefaultFailure
        /\ orders[o].status # "FAILED"

\* C31: The DLQ observer never fails: handleFailedJob completes without
\* throwing both when the order does not exist and when the order update
\* raises a database error, and in both cases no order's state changes.
C31_DLQNeverFails ==
    [][\A j \in DOMAIN jobs :
        (/\ j \in failedEvents
         /\ j \notin failedEvents'
         /\ (~OrderExists(j) \/ faultBudget' # faultBudget)) =>
            /\ handled'[j] =
                    IF faultBudget' # faultBudget THEN "logged" ELSE "notFound"
            /\ orders' = orders
            /\ stock' = stock
            /\ jobs' = jobs
            /\ runs' = runs
      ]_vars

\* One event found no order and another's update raised; nothing was
\* written for either.
C31_Witness ==
    \E j, o \in DOMAIN jobs :
        /\ handled[j] = "notFound"
        /\ ~OrderExists(j)
        /\ handled[o] = "logged"
        /\ orders[o].status \in {"PENDING", "CONFIRMED"}
        /\ failedEvents = {}

\* C32: A failed compensation does not mask the original error: when the
\* CONFIRMED write or the payment step fails after a successful decrement
\* and incrementStockAtomic then reports failure, process() still throws
\* the original error, writes no order status and does not call
\* moveToFailed.
C32_CompensationFailureNotMasking ==
    /\ [](\A j \in DOMAIN runs :
            (runs[j].rollbackResult.called
                /\ ~runs[j].rollbackResult.success) =>
                /\ runs[j].pc = "rethrow"
                /\ runs[j].error \in {ErrPayment, ErrConnection}
                /\ runs[j].error # runs[j].rollbackResult.error
                /\ orders[j].status = runs[j].startStatus)
    /\ [][\A j \in DOMAIN runs :
            /\ (runs[j].pc = "rollback" /\ runs'[j] # runs[j]) =>
                    /\ runs'[j].error = runs[j].error
                    /\ orders' = orders
                    /\ jobs' = jobs
            /\ (/\ runs[j].rollbackResult.called
                /\ ~runs[j].rollbackResult.success
                /\ runs'[j] # runs[j]) =>
                    /\ orders' = orders
                    /\ jobs'[j].state =
                         IF ShouldRetry(jobs[j].attemptsMade)
                         THEN "delayed" ELSE "failed"
                    /\ jobs'[j].state = "failed" =>
                         jobs'[j].failedReason = runs[j].error
         ]_vars

\* The CONFIRMED write raised, the rollback raised too, and the call is
\* about to throw the error of the write.
C32_Witness ==
    \E j \in DOMAIN runs :
        /\ runs[j].rollbackResult =
                IncrementResult(FALSE, ErrDatabase(ErrConnection))
        /\ runs[j].error = ErrConnection
        /\ runs[j].reserved > 0
        /\ net[j] = runs[j].reserved
        /\ orders[j].status = "PENDING"

\* C33: A transient failure leaves the order as it was: whenever process()
\* throws (a version-conflict or database-error result of the decrement, a
\* payment failure or a failed CONFIRMED write), it has not written FAILED
\* on the order and has not called moveToFailed, and when the decrement
\* never succeeded it has issued no compensating increment.
C33_TransientLeavesPending ==
    /\ [](\A j \in DOMAIN runs :
            runs[j].pc = "rethrow" =>
                /\ orders[j].status = runs[j].startStatus
                /\ orders[j].failureReason = <<>>
                /\ jobs[j].state = "active"
                /\ runs[j].reserved = 0 =>
                        /\ ~runs[j].rollbackResult.called
                        /\ runs[j].released = 0
                        /\ net[j] = 0)
    /\ [][\A j \in DOMAIN runs :
            (runs[j].pc = "rethrow" /\ runs'[j] # runs[j]) =>
                /\ orders' = orders
                /\ stock' = stock
                /\ jobs'[j].state =
                     IF ShouldRetry(jobs[j].attemptsMade)
                     THEN "delayed" ELSE "failed"
         ]_vars

\* A call about to throw the database error its decrement returned.
C33_Witness ==
    \E j \in DOMAIN runs :
        /\ runs[j].pc = "rethrow"
        /\ Includes(runs[j].error, <<"Database", "error">>)
        /\ runs[j].reserved = 0
        /\ orders[j].status = "PENDING"
        /\ ShouldRetry(jobs[j].attemptsMade)

\* C34: Classification of a failed stock result is by its error text:
\* process() throws for retry exactly when the error contains "version
\* conflicts" or "Database error"; every other failed result, the one with
\* "Version conflict - stock was modified by another operation" included,
\* is a business failure that marks the order FAILED with that error as
\* failureReason and calls moveToFailed.
C34_ClassificationByText ==
    /\ [](\A j \in DOMAIN runs :
            /\ runs[j].pc = "rethrow" =>
                    runs[j].error \in
                        {<<"Max", "retries", "exceeded", "due", "to",
                           "version", "conflicts">>,
                         <<"Database", "error", ":", "Database",
                           "connection", "failed">>}
            /\ runs[j].pc \in {"business", "moveToFailed"} =>
                    runs[j].error \in
                        {<<"Stock", "not", "found">>,
                         ErrInsufficient(0, 1),
                         <<"Version", "conflict", "-", "stock", "was",
                           "modified", "by", "another", "operation">>,
                         <<"Stock", "operation", "failed">>}
            /\ runs[j].pc = "moveToFailed" =>
                    /\ orders[j].status = "FAILED"
                    /\ orders[j].failureReason = runs[j].error)
    /\ [][\A j \in DOMAIN runs :
            /\ (runs[j].pc = "business" /\ runs'[j] # runs[j]) =>
                    /\ runs'[j].pc = "moveToFailed"
                    /\ orders'[j].status = "FAILED"
                    /\ orders'[j].failureReason = runs[j].error
            /\ (runs[j].pc = "moveToFailed" /\ runs'[j] # runs[j]) =>
                    /\ jobs'[j].attemptsMade = jobs[j].attemptsMade + 1
                    /\ orders' = orders
         ]_vars

\* The text of the unit test ended as the reason of a FAILED order on the
\* job's first attempt.
C34_Witness ==
    \E j \in DOMAIN runs :
        /\ orders[j].status = "FAILED"
        /\ orders[j].failureReason = ErrVersionConflict
        /\ jobs[j].state # "active"
        /\ jobs[j].attemptsMade = 1

\* C35: failureReason is empty unless the order is FAILED: an order whose
\* status is PENDING or CONFIRMED has an empty failureReason, and an order
\* whose status is FAILED has a non-empty one.
C35_FailureReasonOnlyWhenFailed ==
    \A o \in DOMAIN orders :
        /\ orders[o].status \in {"PENDING", "CONFIRMED"} =>
                orders[o].failureReason = <<>>
        /\ orders[o].status = "FAILED" => orders[o].failureReason # <<>>

\* An order the DLQ listener marked FAILED after the attempts ran out.
C35_Witness ==
    \E o \in DOMAIN orders :
        /\ orders[o].status = "FAILED"
        /\ Len(orders[o].failureReason) > 0
        /\ handled[o] = "updated"
        /\ jobs[o].attemptsMade = attempts

\* C36: A completed job never leaves stock reserved for an unconfirmed
\* order: whenever process() returns normally, either the order is
\* CONFIRMED and this attempt's net stock change is minus the order
\* quantity, or this attempt's net stock change is zero; this includes the
\* case where the CONFIRMED write finds no order record.
C36_CompletedJobHoldsNoStock ==
    \A j \in DOMAIN runs :
        runs[j].pc \in {"ack", "moveToFailed"} =>
            \/ /\ orders[j].status = "CONFIRMED"
               /\ net[j] = orders[j].quantity
            \/ net[j] = 0

\* C37: An admin stock update cannot break the reservation check: when
\* updateStock sets the quantity between a worker's read and its
\* conditional update inside decrementStockAtomic, the conditional update
\* does not apply the decrement to a quantity smaller than the requested
\* amount, so the quantity stays >= 0.
C37_AdminUpdateKeepsCheck ==
    [][\A j \in DOMAIN runs :
        (runs[j].pc = "findOneAndUpdate" /\ net'[j] > net[j]) =>
            /\ ~(stock.quantity < orders[j].quantity)
            /\ stock'.quantity >= 0
      ]_vars

\* C38: The order exists before its job: every job in the queue (waiting,
\* delayed, active, completed or failed) names an order that was saved
\* before the job was added, and each order is named by at most one job:
\* a job is added only by the createOrder call that saved the order, once.
C38_OrderBeforeJob ==
    /\ [](\A o \in DOMAIN jobs :
            jobs[o].state # "none" =>
                /\ OrderExists(o)
                /\ intake[o] = "done")
    /\ [][\A o \in DOMAIN jobs :
            /\ (jobs[o].state = "none" /\ jobs'[o].state # "none") =>
                    /\ OrderExists(o)
                    /\ intake[o] = "saved"
                    /\ orders'[o] = orders[o]
            /\ jobs[o].state # "none" =>
                    /\ jobs'[o].state # "none"
                    /\ intake'[o] = "done"
                    /\ jobs'[o].attemptsMade >= jobs[o].attemptsMade
         ]_vars

\* Two orders whose jobs went through the queue to different ends.
C38_Witness ==
    \E o, p \in DOMAIN jobs :
        /\ jobs[o].state = "completed"
        /\ jobs[p].state \in {"delayed", "failed"}
        /\ orders[o].status = "CONFIRMED"
        /\ OrderExists(p)

\* C39: No two handler executions for one job overlap: at no time are two
\* process() executions for the same job in progress at once, also when a
\* slow handler exceeds the stall timeout and the job is redelivered; hence
\* two executions never both hold a reservation for the same order.
C39_NoOverlap ==
    \A j \in DOMAIN jobs :
        /\ ~(runs[j].pc \notin {"idle", "dead"} /\ stale[j].pc # "idle")
        /\ ~(runs[j].reserved > 0 /\ stale[j].reserved > 0)

====
